---- MODULE Spec2Model ----
(***************************************************************************)
(* pyvesync.devhelpers.Timer: a countdown timer whose remaining time is    *)
(* derived lazily from the wall clock.  The model keeps the three mutable  *)
(* private fields of a Timer (_status, _remain, update_time), the two      *)
(* constructor fields that decide them (timer_duration, remaining), and    *)
(* the wall clock int(time.time()).  Every property and method of the      *)
(* class is an operator over a timer record and a clock value; every       *)
(* action applies one of them and records the call in `last`.  A second   *)
(* specification, SpecThreads, runs two time_remaining reads of one timer  *)
(* from two threads, one field or clock access at a time.                  *)
(***************************************************************************)
EXTENDS Integers, Sequences, FiniteSets, TLC

VARIABLES
    now,      \* int(time.time()), the wall clock in whole seconds
    timer,    \* the Timer instance
    last,     \* the last call made on the timer: its arguments, the state
              \* and clock it was made at, what it returned or raised
    calls,    \* per thread, a time_remaining read in progress: its position
              \* in the code and its local values (used by SpecThreads)
    hist      \* what the threads' calls started from, in which order they
              \* started and whether any was interrupted (used by SpecThreads)

vars == <<now, timer, last, calls, hist>>

\* ---------------------------------------------------------------- bounds
MaxTime == 4      \* the clock runs over 0..MaxTime
MaxDur == 3       \* durations and written remaining times are at most MaxDur
MaxCreateGap == 1 \* the Timer is created at most this long after class load
MaxThreadTime == 2 \* the clock runs over 0..MaxThreadTime while threads read

\* Python's None, and a present Optional value
None == <<>>
Some(x) == <<x>>

\* The clock value at which the class body of Timer was executed; the
\* default of the update_time field is evaluated there, once.
ClassLoadTime == 0
DefaultUpdateTime == Some(ClassLoadTime)

Statuses == {"active", "paused", "done"}
BadStatus == "bogus"

Durations == 0..MaxDur
WriteValues == (-1)..MaxDur
OptWriteValues == {None} \cup {Some(v) : v \in WriteValues}
OptStatuses == {None} \cup {Some(s) : s \in Statuses \cup {BadStatus}}

\* ------------------------------------------- threads sharing the timer

\* Two callers of the same Timer, with no lock between them
Threads == {"A", "B"}

\* A time_remaining read that has not begun: pc is the source line the
\* call executes next, tmp the clock value it read last, elapsed the value
\* of _seconds_since_check it computed last, rem the _remain it read on
\* line 270, ret what it returned, clock the clock value it began at.
NewCall ==
    [pc |-> "l261", tmp |-> 0, elapsed |-> 0, rem |-> 0,
     ret |-> None, clock |-> None]

\* The call has returned or raised
Finished(c) == c.pc \in {"done", "raised"}

\* The call has executed a step and has not yet returned or raised
InCall(c) == c.pc \notin {"l261", "done", "raised"}

\* No call made yet on timer `self`
NewHist(self) ==
    [timer0 |-> self, order |-> <<>>, atomic |-> TRUE, ticked |-> FALSE]

\* ------------------------------------------------------------ the class

\* attrs-generated __init__ followed by __attrs_post_init__, with the
\* default _status and the default update_time.
NewTimer(timer_duration, remaining) ==
    [timer_duration |-> timer_duration,
     remaining      |-> remaining,
     status         |-> "active",
     remain         |-> IF remaining # None THEN remaining[1] ELSE timer_duration,
     update_time    |-> DefaultUpdateTime]

\* end that sets the status and clears the checkpoint, but keeps _remain
End_KeepRemain(self) ==
    [self EXCEPT !.status = "done", !.update_time = None]

\* Timer.end
End(self) ==
    [self EXCEPT !.status = "done", !.remain = 0, !.update_time = None]

\* Timer._seconds_since_check
SecondsSinceCheck(self, clock) ==
    IF self.update_time = None THEN 0 ELSE clock - self.update_time[1]

\* _internal_update without the early return for a paused timer, counting
\* down every timer that is not done
InternalUpdate_CountsWhilePaused(self, clock) ==
    LET s1 == IF \/ self.status = "done"
                 \/ /\ SecondsSinceCheck(self, clock) > self.remain
                    /\ self.status = "active"
              THEN [self EXCEPT !.status = "done",
                                !.update_time = None,
                                !.remain = 0]
              ELSE self
    IN  IF s1.status # "done"
        THEN [s1 EXCEPT !.remain = s1.remain - SecondsSinceCheck(s1, clock),
                        !.update_time = Some(clock)]
        ELSE s1

\* _internal_update whose expiry branch leaves update_time set
InternalUpdate_ExpireKeepsCheckpoint(self, clock) ==
    IF self.status = "paused"
    THEN [self EXCEPT !.update_time = None]
    ELSE LET s1 == IF \/ self.status = "done"
                      \/ /\ SecondsSinceCheck(self, clock) > self.remain
                         /\ self.status = "active"
                   THEN [self EXCEPT !.status = "done",
                                     !.remain = 0]
                   ELSE self
         IN  IF s1.status = "active"
             THEN [s1 EXCEPT !.remain = s1.remain - SecondsSinceCheck(s1, clock),
                             !.update_time = Some(clock)]
             ELSE s1

\* _internal_update without its expiry branch: an active timer is never
\* turned to done, elapsed time is only subtracted
InternalUpdate_NoExpire(self, clock) ==
    IF self.status = "paused"
    THEN [self EXCEPT !.update_time = None]
    ELSE IF self.status = "active"
         THEN [self EXCEPT !.remain = self.remain - SecondsSinceCheck(self, clock),
                           !.update_time = Some(clock)]
         ELSE [self EXCEPT !.update_time = None, !.remain = 0]

\* _internal_update that subtracts the elapsed time but leaves update_time
\* where it was
InternalUpdate_KeepCheckpoint(self, clock) ==
    IF self.status = "paused"
    THEN [self EXCEPT !.update_time = None]
    ELSE LET s1 == IF \/ self.status = "done"
                      \/ /\ SecondsSinceCheck(self, clock) > self.remain
                         /\ self.status = "active"
                   THEN [self EXCEPT !.status = "done",
                                     !.update_time = None,
                                     !.remain = 0]
                   ELSE self
         IN  IF s1.status = "active"
             THEN [s1 EXCEPT !.remain = s1.remain - SecondsSinceCheck(s1, clock)]
             ELSE s1

\* Timer._internal_update
InternalUpdate(self, clock) ==
    IF self.status = "paused"
    THEN [self EXCEPT !.update_time = None]
    ELSE LET s1 == IF \/ self.status = "done"
                      \/ /\ SecondsSinceCheck(self, clock) > self.remain
                         /\ self.status = "active"
                   THEN [self EXCEPT !.status = "done",
                                     !.update_time = None,
                                     !.remain = 0]
                   ELSE self
         IN  IF s1.status = "active"
             THEN [s1 EXCEPT !.remain = s1.remain - SecondsSinceCheck(s1, clock),
                             !.update_time = Some(clock)]
             ELSE s1

\* Timer.status (getter): returns _status, no recompute
GetStatus(self) == self.status

\* The status setter raises ValueError before touching the timer
StatusRaises(status) == status \notin Statuses

\* the status setter without the test of the recomputed status: only a
\* written 'done' ends the timer
SetStatus_NotSticky(self, status, clock) ==
    IF StatusRaises(status)
    THEN self
    ELSE LET u == InternalUpdate(self, clock)
         IN  IF status = "done"
             THEN End(u)
             ELSE LET u1 == IF GetStatus(u) = "paused" /\ status = "active"
                            THEN [u EXCEPT !.update_time = Some(clock)]
                            ELSE u
                      u2 == IF GetStatus(u1) = "active" /\ status = "paused"
                            THEN [u1 EXCEPT !.update_time = None]
                            ELSE u1
                  IN  [u2 EXCEPT !.status = status]

\* the status setter validating its argument after the recompute
SetStatus_ValidateLate(self, status, clock) ==
    LET u == InternalUpdate(self, clock)
    IN  IF StatusRaises(status)
        THEN u
        ELSE IF status = "done" \/ u.status = "done"
             THEN End(u)
             ELSE LET u1 == IF GetStatus(u) = "paused" /\ status = "active"
                            THEN [u EXCEPT !.update_time = Some(clock)]
                            ELSE u
                      u2 == IF GetStatus(u1) = "active" /\ status = "paused"
                            THEN [u1 EXCEPT !.update_time = None]
                            ELSE u1
                  IN  [u2 EXCEPT !.status = status]

\* the status setter without its _internal_update
SetStatus_NoRecompute(self, status, clock) ==
    IF StatusRaises(status)
    THEN self
    ELSE IF status = "done" \/ self.status = "done"
         THEN End(self)
         ELSE LET u1 == IF GetStatus(self) = "paused" /\ status = "active"
                        THEN [self EXCEPT !.update_time = Some(clock)]
                        ELSE self
                  u2 == IF GetStatus(u1) = "active" /\ status = "paused"
                        THEN [u1 EXCEPT !.update_time = None]
                        ELSE u1
              IN  [u2 EXCEPT !.status = status]

\* Timer.status (setter); on ValueError the timer is as it was
SetStatus(self, status, clock) ==
    IF StatusRaises(status)
    THEN self
    ELSE LET u == InternalUpdate(self, clock)
         IN  IF status = "done" \/ u.status = "done"
             THEN End(u)
             ELSE LET u1 == IF GetStatus(u) = "paused" /\ status = "active"
                            THEN [u EXCEPT !.update_time = Some(clock)]
                            ELSE u
                      u2 == IF GetStatus(u1) = "active" /\ status = "paused"
                            THEN [u1 EXCEPT !.update_time = None]
                            ELSE u1
                  IN  [u2 EXCEPT !.status = status]

\* Timer.time_remaining (getter): recompute, then return _remain
GetTimeRemaining(self, clock) ==
    LET u == InternalUpdate(self, clock)
    IN  [self |-> u, ret |-> u.remain]

\* the time_remaining setter without its closing _internal_update
SetTimeRemaining_NoRecompute(self, remaining, clock) ==
    IF remaining <= 0
    THEN End(self)
    ELSE LET s1 == [self EXCEPT !.remain = remaining]
             s2 == IF s1.status = "done"
                   THEN SetStatus(s1, "paused", clock)
                   ELSE s1
         IN  [s2 EXCEPT !.update_time = None]

\* the time_remaining setter without the remaining <= 0 test
SetTimeRemaining_NoClamp(self, remaining, clock) ==
    LET s1 == [self EXCEPT !.remain = remaining]
        s2 == IF s1.status = "done"
              THEN SetStatus(s1, "paused", clock)
              ELSE s1
        s3 == [s2 EXCEPT !.update_time = None]
    IN  InternalUpdate(s3, clock)

\* Timer.time_remaining (setter)
SetTimeRemaining(self, remaining, clock) ==
    IF remaining <= 0
    THEN End(self)
    ELSE LET s1 == [self EXCEPT !.remain = remaining]
             s2 == IF s1.status = "done"
                   THEN SetStatus(s1, "paused", clock)
                   ELSE s1
             s3 == [s2 EXCEPT !.update_time = None]
         IN  InternalUpdate(s3, clock)

\* Timer.running
Running(self, clock) ==
    LET r == GetTimeRemaining(self, clock)
    IN  [self |-> r.self,
         ret  |-> (r.ret > 0 /\ GetStatus(r.self) = "active")]

\* Timer.paused
Paused(self) == GetStatus(self) = "paused"

\* Timer.done
Done(self, clock) ==
    LET r == GetTimeRemaining(self, clock)
    IN  [self |-> r.self,
         ret  |-> (r.ret <= 0 \/ r.self.status = "done")]

\* start with its guard inverted: it returns on a paused timer
Start_InvertedGuard(self, clock) ==
    IF self.status = "paused"
    THEN self
    ELSE SetStatus([self EXCEPT !.update_time = Some(clock)], "active", clock)

\* start that recomputes before testing the status
Start_RecomputesFirst(self, clock) ==
    LET u == InternalUpdate(self, clock)
    IN  IF u.status # "paused"
        THEN u
        ELSE SetStatus([u EXCEPT !.update_time = Some(clock)], "active", clock)

\* Timer.start
Start(self, clock) ==
    IF self.status # "paused"
    THEN self
    ELSE SetStatus([self EXCEPT !.update_time = Some(clock)], "active", clock)

\* update that writes the status before the remaining time
Update_StatusFirst(self, time_remaining, status, clock) ==
    LET s1 == IF status # None THEN SetStatus(self, status[1], clock) ELSE self
    IN  IF time_remaining # None
        THEN SetTimeRemaining(s1, time_remaining[1], clock)
        ELSE s1

\* Timer.update(time_remaining=..., status=...); both are Optional
Update(self, time_remaining, status, clock) ==
    LET s1 == IF time_remaining # None
              THEN SetTimeRemaining(self, time_remaining[1], clock)
              ELSE self
    IN  IF status # None THEN SetStatus(s1, status[1], clock) ELSE s1

\* Timer.update raises exactly when it reaches the status setter with an
\* unrecognised status
UpdateRaises(status) == status # None /\ StatusRaises(status[1])

\* pause that assigns _status itself, with no recompute on the way
Pause_DirectStatus(self, clock) ==
    IF GetStatus(self) = "done"
    THEN self
    ELSE [self EXCEPT !.status = "paused", !.update_time = None]

\* Timer.pause
Pause(self, clock) ==
    LET u == InternalUpdate(self, clock)
    IN  IF GetStatus(u) = "done"
        THEN u
        ELSE [SetStatus(u, "paused", clock) EXCEPT !.update_time = None]

\* ------------------------------------------------------------- the calls

Call(op, tr, st, ret, raised) ==
    [op |-> op, clock |-> now, pre |-> timer,
     tr |-> tr, st |-> st, ret |-> ret, raised |-> raised]

\* The class is loaded at ClassLoadTime; the Timer is created at `now`, with
\* a duration and the defaults of every other argument.
Init ==
    /\ now \in ClassLoadTime..(ClassLoadTime + MaxCreateGap)
    /\ \E d \in Durations : timer = NewTimer(d, None)
    /\ last = [op |-> "create", clock |-> now, pre |-> timer,
               tr |-> None, st |-> None, ret |-> None, raised |-> FALSE]
    /\ calls = [th \in Threads |-> NewCall]
    /\ hist = NewHist(timer)

\* One second of wall-clock time passes
Tick ==
    /\ now < MaxTime
    /\ now' = now + 1
    /\ UNCHANGED <<timer, last, calls, hist>>

ReadStatus ==
    /\ last' = Call("status", None, None, GetStatus(timer), FALSE)
    /\ UNCHANGED <<now, timer, calls, hist>>

WriteStatus ==
    \E s \in Statuses \cup {BadStatus} :
        /\ timer' = SetStatus(timer, s, now)
        /\ last' = Call("set_status", None, Some(s), None, StatusRaises(s))
        /\ UNCHANGED <<now, calls, hist>>

ReadTimeRemaining ==
    LET r == GetTimeRemaining(timer, now)
    IN  /\ timer' = r.self
        /\ last' = Call("time_remaining", None, None, r.ret, FALSE)
        /\ UNCHANGED <<now, calls, hist>>

WriteTimeRemaining ==
    \E v \in WriteValues :
        /\ timer' = SetTimeRemaining(timer, v, now)
        /\ last' = Call("set_time_remaining", Some(v), None, None, FALSE)
        /\ UNCHANGED <<now, calls, hist>>

ReadRunning ==
    LET r == Running(timer, now)
    IN  /\ timer' = r.self
        /\ last' = Call("running", None, None, r.ret, FALSE)
        /\ UNCHANGED <<now, calls, hist>>

ReadPaused ==
    /\ last' = Call("paused", None, None, Paused(timer), FALSE)
    /\ UNCHANGED <<now, timer, calls, hist>>

ReadDone ==
    LET r == Done(timer, now)
    IN  /\ timer' = r.self
        /\ last' = Call("done", None, None, r.ret, FALSE)
        /\ UNCHANGED <<now, calls, hist>>

CallEnd ==
    /\ timer' = End(timer)
    /\ last' = Call("end", None, None, None, FALSE)
    /\ UNCHANGED <<now, calls, hist>>

CallStart ==
    /\ timer' = Start(timer, now)
    /\ last' = Call("start", None, None, None, FALSE)
    /\ UNCHANGED <<now, calls, hist>>

CallPause ==
    /\ timer' = Pause(timer, now)
    /\ last' = Call("pause", None, None, None, FALSE)
    /\ UNCHANGED <<now, calls, hist>>

CallUpdate ==
    \E tr \in OptWriteValues, st \in OptStatuses :
        /\ timer' = Update(timer, tr, st, now)
        /\ last' = Call("update", tr, st, None, UpdateRaises(st))
        /\ UNCHANGED <<now, calls, hist>>

Next ==
    \/ Tick
    \/ ReadStatus
    \/ WriteStatus
    \/ ReadTimeRemaining
    \/ WriteTimeRemaining
    \/ ReadRunning
    \/ ReadPaused
    \/ ReadDone
    \/ CallEnd
    \/ CallStart
    \/ CallPause
    \/ CallUpdate

Spec == Init /\ [][Next]_vars

\* ------------------------------------- a read, one memory access a step

\* the comparison of line 264 made with >=
Expired_NonStrict(elapsed, remain) == elapsed >= remain

\* The comparison of line 264: _seconds_since_check > _remain
Expired(elapsed, remain) == elapsed > remain

\* One step of the time_remaining getter running _internal_update on the
\* shared timer: call `c` executes the next read or write of a field of
\* `self`, or the next read of the clock, in Python's evaluation order.
\*   l261         if self._status == 'paused'
\*   l262         self.update_time = None; return
\*   l264a        self._status == 'done'
\*   l264b-l264d  self._seconds_since_check: update_time is None?,
\*                int(time.time()), - self.update_time (TypeError on None)
\*   l264e        > self._remain
\*   l264f        and self._status == 'active'
\*   l266-l268    _status = 'done'; update_time = None; _remain = 0
\*   l269         if self._status == 'active'
\*   l270a        self._remain (right-hand side)
\*   l270b-l270d  self._seconds_since_check, as above
\*   l270e        self._remain = ...
\*   l271a-l271b  int(time.time()); self.update_time = ...
\*   l246         return self._remain
StepCall(c, self, clock) ==
    LET Goto(p) == [call |-> [c EXCEPT !.pc = p], timer |-> self]
        Write(p, t) == [call |-> [c EXCEPT !.pc = p], timer |-> t]
    IN  CASE c.pc = "l261" ->
                IF self.status = "paused" THEN Goto("l262") ELSE Goto("l264a")
          [] c.pc = "l262" ->
                Write("l246", [self EXCEPT !.update_time = None])
          [] c.pc = "l264a" ->
                IF self.status = "done" THEN Goto("l266") ELSE Goto("l264b")
          [] c.pc = "l264b" ->
                IF self.update_time = None
                THEN [call |-> [c EXCEPT !.pc = "l264e", !.elapsed = 0],
                      timer |-> self]
                ELSE Goto("l264c")
          [] c.pc = "l264c" ->
                [call |-> [c EXCEPT !.pc = "l264d", !.tmp = clock],
                 timer |-> self]
          [] c.pc = "l264d" ->
                IF self.update_time = None
                THEN Goto("raised")
                ELSE [call |-> [c EXCEPT !.pc = "l264e",
                                         !.elapsed = c.tmp - self.update_time[1]],
                      timer |-> self]
          [] c.pc = "l264e" ->
                IF Expired(c.elapsed, self.remain)
                THEN Goto("l264f")
                ELSE Goto("l269")
          [] c.pc = "l264f" ->
                IF self.status = "active" THEN Goto("l266") ELSE Goto("l269")
          [] c.pc = "l266" ->
                Write("l267", [self EXCEPT !.status = "done"])
          [] c.pc = "l267" ->
                Write("l268", [self EXCEPT !.update_time = None])
          [] c.pc = "l268" ->
                Write("l269", [self EXCEPT !.remain = 0])
          [] c.pc = "l269" ->
                IF self.status = "active" THEN Goto("l270a") ELSE Goto("l246")
          [] c.pc = "l270a" ->
                [call |-> [c EXCEPT !.pc = "l270b", !.rem = self.remain],
                 timer |-> self]
          [] c.pc = "l270b" ->
                IF self.update_time = None
                THEN [call |-> [c EXCEPT !.pc = "l270e", !.elapsed = 0],
                      timer |-> self]
                ELSE Goto("l270c")
          [] c.pc = "l270c" ->
                [call |-> [c EXCEPT !.pc = "l270d", !.tmp = clock],
                 timer |-> self]
          [] c.pc = "l270d" ->
                IF self.update_time = None
                THEN Goto("raised")
                ELSE [call |-> [c EXCEPT !.pc = "l270e",
                                         !.elapsed = c.tmp - self.update_time[1]],
                      timer |-> self]
          [] c.pc = "l270e" ->
                Write("l271a", [self EXCEPT !.remain = c.rem - c.elapsed])
          [] c.pc = "l271a" ->
                [call |-> [c EXCEPT !.pc = "l271b", !.tmp = clock],
                 timer |-> self]
          [] c.pc = "l271b" ->
                Write("l246", [self EXCEPT !.update_time = Some(c.tmp)])
          [] c.pc = "l246" ->
                [call |-> [c EXCEPT !.pc = "done", !.ret = Some(self.remain)],
                 timer |-> self]

\* The timer is new, or has been paused or ended since its creation; each
\* thread is about to read time_remaining.
InitThreads ==
    /\ now \in ClassLoadTime..(ClassLoadTime + MaxCreateGap)
    /\ now <= MaxThreadTime
    /\ \E d \in Durations :
          timer \in {NewTimer(d, None),
                     Pause(NewTimer(d, None), now),
                     End(NewTimer(d, None))}
    /\ last = [op |-> "create", clock |-> now, pre |-> timer,
               tr |-> None, st |-> None, ret |-> None, raised |-> FALSE]
    /\ calls = [th \in Threads |-> NewCall]
    /\ hist = NewHist(timer)

\* One second passes, possibly in the middle of a call
TickThreads ==
    /\ now < MaxThreadTime
    /\ now' = now + 1
    /\ hist' = [hist EXCEPT
                  !.atomic = @ /\ \A th \in Threads : ~InCall(calls[th]),
                  !.ticked = @ \/ \E th \in Threads : InCall(calls[th])]
    /\ UNCHANGED <<timer, last, calls>>

\* Thread th executes the next step of its call
ThreadStep(th) ==
    /\ ~Finished(calls[th])
    /\ LET r == StepCall(calls[th], timer, now)
           begins == calls[th].pc = "l261"
       IN  /\ timer' = r.timer
           /\ calls' = [calls EXCEPT ![th] =
                          IF begins
                          THEN [r.call EXCEPT !.clock = Some(now)]
                          ELSE r.call]
           /\ hist' = [hist EXCEPT
                         !.order = IF begins THEN Append(@, th) ELSE @,
                         !.atomic = @ /\ \A o \in Threads \ {th} :
                                             ~InCall(calls[o])]
    /\ UNCHANGED <<now, last>>

NextThreads ==
    \/ TickThreads
    \/ \E th \in Threads : ThreadStep(th)

SpecThreads == InitThreads /\ [][NextThreads]_vars

\* ------------------------------------------------------------ type check
TypeOK ==
    /\ now \in 0..MaxTime
    /\ timer.status \in Statuses
    /\ timer.remain \in 0..MaxDur
    /\ timer.update_time \in {None} \cup {Some(t) : t \in 0..MaxTime}

\* --------------------------------------------------------------- claims

\* The call recorded in `last` was made on an active timer; Elapsed is the
\* wall-clock time between that timer's checkpoint and the call.
PreActive == last.pre.status = "active" /\ last.pre.update_time # None
Elapsed == last.clock - last.pre.update_time[1]

\* C1: a Timer created at clock t with a duration d > 0 and default
\* arguments has its checkpoint at t, so that at clock t time_remaining
\* reads d and running reads true.
C1_CheckpointIsCreationTime ==
    (last.op = "create" /\ timer.timer_duration > 0)
        => /\ timer.update_time = Some(last.clock)
           /\ now = last.clock =>
                 /\ GetTimeRemaining(timer, now).ret = timer.timer_duration
                 /\ Running(timer, now).ret = TRUE

\* C2: on an active timer with remaining r at checkpoint c, a read at a
\* clock with now - c >= r (the boundary now - c = r included) gives
\* time_remaining 0, running false and done true, and so does every read
\* that follows it.
C2_ExpiredReads ==
    (/\ last.op \in {"time_remaining", "running", "done"}
     /\ PreActive
     /\ Elapsed >= last.pre.remain)
        => /\ last.op = "time_remaining" => last.ret = 0
           /\ last.op = "running" => last.ret = FALSE
           /\ last.op = "done" => last.ret = TRUE
           /\ GetTimeRemaining(timer, now).ret = 0
           /\ Running(timer, now).ret = FALSE
           /\ Done(timer, now).ret = TRUE

\* C2 witness: done was read exactly at the boundary of a timer that still
\* had time left at its checkpoint.
C2_Witness ==
    /\ last.op = "done"
    /\ PreActive
    /\ last.pre.remain > 0
    /\ Elapsed = last.pre.remain
    /\ last.ret = TRUE

\* C3: on an active timer created with a positive duration, with remaining
\* r at checkpoint c, the status property reads 'done' once now - c >= r,
\* whether it is the first accessor called or follows a time_remaining read.
C3_StatusReadsDone ==
    (/\ last.op = "status"
     /\ last.pre.timer_duration > 0
     /\ PreActive
     /\ Elapsed >= last.pre.remain)
        => last.ret = "done"

\* C4: on an active timer with remaining r at checkpoint c, a
\* time_remaining read at a clock with 0 <= now - c < r returns
\* r - (now - c), leaves the status active and moves the checkpoint to now.
C4_PartialElapse ==
    (/\ last.op = "time_remaining"
     /\ PreActive
     /\ Elapsed >= 0
     /\ Elapsed < last.pre.remain)
        => /\ last.ret = last.pre.remain - Elapsed
           /\ timer.status = "active"
           /\ timer.remain = last.ret
           /\ timer.update_time = Some(last.clock)

\* C4 witness: a read after some, but not all, of the remaining time passed.
C4_Witness ==
    /\ last.op = "time_remaining"
    /\ PreActive
    /\ Elapsed > 0
    /\ Elapsed < last.pre.remain
    /\ last.ret = last.pre.remain - Elapsed
    /\ timer.update_time = Some(last.clock)

\* C5: done is absorbing: no call and no clock advance takes a timer whose
\* status is done to another status.
C5_DoneAbsorbing == [][timer.status = "done" => timer'.status = "done"]_vars

\* C5 witness: update(time_remaining=v, status='active') with v > 0 was
\* called on a done timer, and the timer is still done.
C5_Witness ==
    /\ last.op = "update"
    /\ last.pre.status = "done"
    /\ last.tr # None
    /\ last.tr[1] > 0
    /\ last.st = Some("active")
    /\ timer.status = "done"

\* C6: writing time_remaining = v with v > 0 on a done timer (created with
\* a positive duration) leaves it
\* paused with remaining v and no checkpoint, and a following start()
\* makes it running with time_remaining v.
C6_RearmAsPaused ==
    (/\ last.op = "set_time_remaining"
     /\ last.tr[1] > 0
     /\ last.pre.timer_duration > 0
     /\ last.pre.status = "done")
        => /\ timer.status = "paused"
           /\ timer.remain = last.tr[1]
           /\ timer.update_time = None
           /\ Running(Start(timer, now), now).ret = TRUE
           /\ GetTimeRemaining(Start(timer, now), now).ret = last.tr[1]

\* C7: writing time_remaining = v with v > 0 on an active or paused timer
\* keeps the status, sets remaining to v, leaves the checkpoint at now
\* when active and None when paused; a read at the same clock returns v.
C7_WriteKeepsStatus ==
    (/\ last.op = "set_time_remaining"
     /\ last.tr[1] > 0
     /\ last.pre.status \in {"active", "paused"})
        => /\ timer.status = last.pre.status
           /\ timer.remain = last.tr[1]
           /\ timer.status = "active" => timer.update_time = Some(last.clock)
           /\ timer.status = "paused" => timer.update_time = None
           /\ now = last.clock => GetTimeRemaining(timer, now).ret = last.tr[1]

\* C7 witness: a new remaining time was written to an active timer whose
\* checkpoint was older than the write.
C7_Witness ==
    /\ last.op = "set_time_remaining"
    /\ last.tr[1] > 0
    /\ PreActive
    /\ Elapsed > 0
    /\ last.tr[1] # last.pre.remain
    /\ timer.status = "active"
    /\ timer.update_time = Some(last.clock)
    /\ now = last.clock

\* C8: update(time_remaining=v) with v <= 0 raises nothing and leaves any
\* timer done with remaining 0 and no checkpoint; done then reads true and
\* time_remaining reads 0.
C8_NonPositiveEnds ==
    (/\ last.op = "update"
     /\ last.tr # None
     /\ last.st = None
     /\ last.tr[1] <= 0)
        => /\ last.raised = FALSE
           /\ timer.status = "done"
           /\ timer.remain = 0
           /\ timer.update_time = None
           /\ Done(timer, now).ret = TRUE
           /\ GetTimeRemaining(timer, now).ret = 0

\* C8 witness: update(time_remaining=0) was called on a paused timer that
\* had time left.
C8_Witness ==
    /\ last.op = "update"
    /\ last.tr = Some(0)
    /\ last.st = None
    /\ last.pre.status = "paused"
    /\ last.pre.remain > 0
    /\ timer.status = "done"

Reads == {"status", "time_remaining", "running", "paused", "done"}

\* C9: a paused timer has no checkpoint, and at any clock value a read
\* leaves it as it was and time_remaining returns its remaining time
\* unchanged.
C9_PausedIsFrozen ==
    /\ timer.status = "paused" =>
          /\ timer.update_time = None
          /\ GetTimeRemaining(timer, now) = [self |-> timer, ret |-> timer.remain]
          /\ Running(timer, now).self = timer
          /\ Done(timer, now).self = timer
    /\ (last.op \in Reads /\ last.pre.status = "paused") =>
          /\ timer = last.pre
          /\ last.op = "time_remaining" => last.ret = last.pre.remain

\* C9 witness: time_remaining was read on a paused timer long after the
\* clock passed the time it had left.
C9_Witness ==
    /\ last.op = "time_remaining"
    /\ last.pre.status = "paused"
    /\ last.pre.remain > 0
    /\ last.clock > last.pre.remain + MaxCreateGap
    /\ last.ret = last.pre.remain
    /\ timer.status = "paused"

\* C10: pause() on an active timer whose time_remaining reads r > 0 leaves
\* it paused with remaining r, and start() at the same clock value makes
\* it active again with time_remaining r and running true.
C10_PauseStartRoundTrip ==
    /\ (/\ last.op = "pause"
        /\ last.pre.status = "active"
        /\ GetTimeRemaining(last.pre, last.clock).ret > 0) =>
          /\ timer.status = "paused"
          /\ timer.remain = GetTimeRemaining(last.pre, last.clock).ret
          /\ now = last.clock =>
                LET s == Start(timer, now)
                IN  /\ s.status = "active"
                    /\ GetTimeRemaining(s, now).ret = timer.remain
                    /\ Running(s, now).ret = TRUE
    /\ (/\ last.op = "start"
        /\ last.pre.status = "paused"
        /\ last.pre.remain > 0
        /\ now = last.clock) =>
          /\ timer.status = "active"
          /\ GetTimeRemaining(timer, now).ret = last.pre.remain
          /\ Running(timer, now).ret = TRUE

\* C10 witness: start() was called on a paused timer with time left and
\* the clock has not moved since.
C10_Witness ==
    /\ last.op = "start"
    /\ last.pre.status = "paused"
    /\ last.pre.remain > 0
    /\ now = last.clock
    /\ timer.status = "active"
    /\ timer.remain = last.pre.remain

\* The timer as end() leaves it
Ended(self) ==
    self.status = "done" /\ self.remain = 0 /\ self.update_time = None

\* C11: writing a status outside active, paused, done raises and leaves
\* status, remaining and checkpoint as they were, also on an active timer
\* with elapsed time pending.
C11_BadStatusLeavesTimer ==
    (last.op = "set_status" /\ last.st[1] \notin {"active", "paused", "done"})
        => /\ last.raised = TRUE
           /\ timer = last.pre

\* C11 witness: an unrecognised status was written to an active timer
\* whose checkpoint was older than the write.
C11_Witness ==
    /\ last.op = "set_status"
    /\ last.st = Some(BadStatus)
    /\ last.raised = TRUE
    /\ PreActive
    /\ Elapsed > 0
    /\ timer = last.pre

\* C12: end() leaves every timer done with remaining 0 and no checkpoint,
\* and a further end() leaves that state unchanged.
C12_EndIdempotent ==
    last.op = "end"
        => /\ Ended(timer)
           /\ End(timer) = timer
           /\ End(End(timer)) = timer

\* C12 witness: end() was called on a timer that end() had already ended,
\* and the timer is as it was.
C12_Witness ==
    /\ last.op = "end"
    /\ Ended(last.pre)
    /\ timer = last.pre

\* C13: every time_remaining read returns a value >= 0, after any calls
\* and any clock advance.
C13_RemainingNonNegative ==
    /\ last.op = "time_remaining" => last.ret >= 0
    /\ GetTimeRemaining(timer, now).ret >= 0

\* C13 witness: time_remaining was read on an active timer after more
\* time passed than it had left, and returned 0.
C13_Witness ==
    /\ last.op = "time_remaining"
    /\ PreActive
    /\ last.pre.remain > 0
    /\ Elapsed > last.pre.remain
    /\ last.ret = 0

\* C14: after every call on a timer created with a positive duration,
\* remaining == 0 implies status == done.
C14_ZeroImpliesDone ==
    (timer.timer_duration > 0 /\ timer.remain = 0) => timer.status = "done"

\* C15: after every call, status == done implies remaining == 0 and no
\* checkpoint.
C15_DoneImpliesZero ==
    timer.status = "done" => (timer.remain = 0 /\ timer.update_time = None)

\* C15 witness: a read found an active timer expired and made it done.
C15_Witness ==
    /\ last.op = "done"
    /\ PreActive
    /\ last.pre.remain > 0
    /\ Elapsed > last.pre.remain
    /\ timer.status = "done"

\* C16: after every call the checkpoint is None exactly when the status is
\* paused or done, and an active timer's checkpoint is a clock value not
\* later than now.
C16_CheckpointMatchesStatus ==
    /\ timer.update_time = None <=> timer.status \in {"paused", "done"}
    /\ timer.status = "active" =>
          /\ timer.update_time # None
          /\ timer.update_time[1] <= now

\* C16 witness: a new remaining time was written to an active timer and
\* the clock has advanced since.
C16_Witness ==
    /\ last.op = "set_time_remaining"
    /\ last.tr[1] > 0
    /\ PreActive
    /\ timer.status = "active"
    /\ timer.update_time = Some(last.clock)
    /\ now > last.clock

\* C17: update(time_remaining=v, status=s) with an unrecognised s raises
\* and leaves status, remaining and checkpoint as they were, for every v.
C17_BadUpdateLeavesTimer ==
    (/\ last.op = "update"
     /\ last.pre.timer_duration > 0
     /\ last.tr # None
     /\ last.st = Some(BadStatus))
        => /\ last.raised = TRUE
           /\ timer = last.pre

\* C18: writing time_remaining = v with v > 0 to an active timer (created
\* with a positive duration) whose elapsed time since its checkpoint
\* exceeds its remaining does not leave the timer running.
C18_ExpiredNotRevived ==
    (/\ last.op = "set_time_remaining"
     /\ last.tr[1] > 0
     /\ last.pre.timer_duration > 0
     /\ PreActive
     /\ Elapsed > last.pre.remain)
        => /\ timer.status # "active"
           /\ Running(timer, now).ret = FALSE

\* C19: a status write with a valid s leaves the timer ended when s is
\* done, and when s is active or paused and the timer is active with more
\* time elapsed than it had left; otherwise paused -> active sets the
\* checkpoint to now with remaining unchanged, and active -> paused clears
\* the checkpoint with remaining reduced by the elapsed time.
C19_StatusWrite ==
    (last.op = "set_status" /\ last.st[1] \in {"active", "paused", "done"})
        => /\ last.st[1] = "done" => Ended(timer)
           /\ (PreActive /\ Elapsed > last.pre.remain) => Ended(timer)
           /\ (last.pre.status = "paused" /\ last.st[1] = "active") =>
                 /\ timer.status = "active"
                 /\ timer.update_time = Some(last.clock)
                 /\ timer.remain = last.pre.remain
           /\ (PreActive /\ Elapsed <= last.pre.remain /\ last.st[1] = "paused") =>
                 /\ timer.status = "paused"
                 /\ timer.update_time = None
                 /\ timer.remain = last.pre.remain - Elapsed

\* C19 witness: 'paused' was written to an active timer after more time
\* passed than it had left, and the timer is ended.
C19_Witness ==
    /\ last.op = "set_status"
    /\ last.st = Some("paused")
    /\ PreActive
    /\ last.pre.remain > 0
    /\ Elapsed > last.pre.remain
    /\ Ended(timer)

\* C20: pause() on an active timer with elapsed time e <= remaining r
\* leaves it paused with remaining r - e and no checkpoint; on a done
\* timer, or an active one with e > r, it leaves it ended; on a paused
\* timer it changes nothing.
C20_Pause ==
    last.op = "pause"
        => /\ (PreActive /\ Elapsed <= last.pre.remain) =>
                 /\ timer.status = "paused"
                 /\ timer.remain = last.pre.remain - Elapsed
                 /\ timer.update_time = None
           /\ (PreActive /\ Elapsed > last.pre.remain) => Ended(timer)
           /\ last.pre.status = "done" => Ended(timer)
           /\ last.pre.status = "paused" => timer = last.pre

\* C20 witness: pause() was called on an active timer after part of its
\* remaining time had passed.
C20_Witness ==
    /\ last.op = "pause"
    /\ PreActive
    /\ Elapsed > 0
    /\ Elapsed < last.pre.remain
    /\ timer.status = "paused"
    /\ timer.remain = last.pre.remain - Elapsed

\* C21: start() on a timer whose status is active or done leaves status,
\* remaining and checkpoint unchanged; on a paused timer it leaves the
\* status active, the checkpoint at now and remaining unchanged.
C21_StartOnlyFromPaused ==
    last.op = "start"
        => /\ last.pre.status \in {"active", "done"} => timer = last.pre
           /\ last.pre.status = "paused" =>
                 /\ timer.status = "active"
                 /\ timer.update_time = Some(last.clock)
                 /\ timer.remain = last.pre.remain

\* C21 witness: start() was called on an active timer whose remaining time
\* had run out unobserved, and the timer is as it was.
C21_Witness ==
    /\ last.op = "start"
    /\ PreActive
    /\ last.pre.remain > 0
    /\ Elapsed > last.pre.remain
    /\ timer = last.pre

\* The timer after the two property writes update() stands for, remaining
\* first and status second, each made only when its argument is given
WrittenInTurn(self, tr, st, clock) ==
    LET s1 == IF tr = None THEN self ELSE SetTimeRemaining(self, tr[1], clock)
    IN  IF st = None THEN s1 ELSE SetStatus(s1, st[1], clock)

\* C22: update(time_remaining=r, status=s) leaves the timer as the write
\* time_remaining = r followed by the write status = s leaves it, at the
\* same clock value; with one argument it is that single write, with none
\* it changes nothing; it raises exactly when the status write raises.
C22_UpdateIsBothWrites ==
    last.op = "update"
        => /\ timer = WrittenInTurn(last.pre, last.tr, last.st, last.clock)
           /\ (last.tr = None /\ last.st = None) => timer = last.pre
           /\ (last.tr # None /\ last.st = None) =>
                 timer = SetTimeRemaining(last.pre, last.tr[1], last.clock)
           /\ (last.tr = None /\ last.st # None) =>
                 timer = SetStatus(last.pre, last.st[1], last.clock)
           /\ last.raised = (last.st # None /\ StatusRaises(last.st[1]))

\* C22 witness: update(time_remaining=v, status='paused') with v > 0 was
\* called on an active timer with elapsed time pending.
C22_Witness ==
    /\ last.op = "update"
    /\ last.tr # None
    /\ last.tr[1] > 0
    /\ last.st = Some("paused")
    /\ PreActive
    /\ Elapsed > 0
    /\ timer.status = "paused"
    /\ timer.remain = last.tr[1]

\* The number of flags among running, paused, done that read true, read in
\* that order at one clock value
FlagsTrue(self, clock) ==
    LET r == Running(self, clock)
        p == Paused(r.self)
        d == Done(r.self, clock)
    IN  (IF r.ret THEN 1 ELSE 0) + (IF p THEN 1 ELSE 0) + (IF d.ret THEN 1 ELSE 0)

\* C23: after any calls and clock advances on a timer created with a
\* positive duration, exactly one of running, paused, done reads true.
C23_ExactlyOneFlag ==
    timer.timer_duration > 0 => FlagsTrue(timer, now) = 1

\* The states a timer can be in after one read of a property at `clock`
AfterRead(self, clock) ==
    {self,
     GetTimeRemaining(self, clock).self,
     Running(self, clock).self,
     Done(self, clock).self}

\* What time_remaining, running and done return at `clock`
ReadValues(self, clock) ==
    <<GetTimeRemaining(self, clock).ret,
      Running(self, clock).ret,
      Done(self, clock).ret>>

\* C24: with no write in between, time_remaining, running and done read at
\* a clock value t2 return the same whether or not a property was read at
\* a clock value t1 <= t2 (t1 = t2: read twice at the same clock value).
C24_ReadsDoNotDisturb ==
    /\ \A t1 \in now..MaxTime : \A t2 \in t1..MaxTime :
          \A mid \in AfterRead(timer, t1) :
              ReadValues(mid, t2) = ReadValues(timer, t2)
    /\ last.op \in Reads =>
          ReadValues(timer, now) = ReadValues(last.pre, now)

\* C24 witness: time_remaining was read on an active timer part of the way
\* through its remaining time, and the clock has advanced since.
C24_Witness ==
    /\ last.op = "time_remaining"
    /\ PreActive
    /\ Elapsed > 0
    /\ Elapsed < last.pre.remain
    /\ now > last.clock
    /\ timer.status = "active"

\* Every thread's call has returned or raised
AllFinished == \A th \in Threads : Finished(calls[th])

\* The timers two time_remaining reads leave when one runs after the
\* other, each as a whole at one clock value
SerialResults ==
    {GetTimeRemaining(GetTimeRemaining(hist.timer0, t1).self, t2).self :
        t1 \in 0..MaxThreadTime, t2 \in 0..MaxThreadTime}

\* C25: when each of the two calls runs without a step of the other
\* caller and without a clock tick inside it, the timer and both returned
\* values are those of the two reads made one after the other, in the
\* order the calls began; no call raises.
C25_AtomicCallsAreSerial ==
    (AllFinished /\ hist.atomic)
        => LET a  == hist.order[1]
               b  == hist.order[2]
               r1 == GetTimeRemaining(hist.timer0, calls[a].clock[1])
               r2 == GetTimeRemaining(r1.self, calls[b].clock[1])
           IN  /\ calls[a].pc = "done"
               /\ calls[b].pc = "done"
               /\ calls[a].ret = Some(r1.ret)
               /\ calls[b].ret = Some(r2.ret)
               /\ timer = r2.self

\* C25 witness: two overlapping reads of an active timer, with no clock
\* tick inside either, have both returned and left the timer in a state
\* no serial order of two reads produces: the same elapsed interval was
\* subtracted twice.
C25_Witness ==
    /\ AllFinished
    /\ \A th \in Threads : calls[th].pc = "done"
    /\ ~hist.atomic
    /\ ~hist.ticked
    /\ hist.timer0.status = "active"
    /\ timer \notin SerialResults
    /\ now > hist.timer0.update_time[1]
    /\ timer.remain = hist.timer0.remain - 2 * (now - hist.timer0.update_time[1])

====
